---- MODULE Spec2Model ----
(***************************************************************************)
(* A model of ngx-market-reports: the trading-date label of app.py         *)
(* (get_market_date), and the fetch / select / render pipelines of         *)
(* scraper.py, app.py and ngx_report.py (driven by run_scheduled.py).      *)
(*                                                                         *)
(* Specifications:                                                         *)
(*   SpecDate   the Lagos clock and calls of get_market_date               *)
(*   SpecFetch  one run of one of the three pipelines on one page          *)
(***************************************************************************)
EXTENDS Integers, Sequences, FiniteSets, TLC

VARIABLES
    now,          \* the Lagos wall clock: [day |-> days since 1970-01-01, tod |-> second of the day]
    market_date,  \* what the latest call of get_market_date returned (NoDate before any call)
    date_pc,      \* "idle", or "returned" while the clock still shows the instant of the latest call
    called_at,    \* the instant of the latest call while the clock is in that call's minute, else LongAgo
    previous_call,\* the call before the latest: [date |-> its label, at |-> its instant, kept as called_at is]
    variant,      \* the pipeline that runs: "scraper", "app" or "report" ("none" under SpecDate)
    pc,           \* the pipeline's position
    page,         \* what the exchange's site serves during the run
    browser,      \* "none", "running", "quit" (driver.quit / browser.close) or "stopped" (playwright's context exit)
    html,         \* the html in hand: None, app.py's page_source, or what ngx_report.py's html holds
    scraped,      \* scraper.py: the frame scrape_equities_table returned
    result,       \* the (advancers, decliners) pair the fetch / selection returned, or None
    raised,       \* the exception that left the pipeline's top-level call ("none" if none did)
    error,        \* app.py: the message st.error / st.warning showed ("none" if none)
    doc           \* the tables of the Word document, [adv, dec], or None

dateVars == <<now, market_date, date_pc, called_at, previous_call>>
fetchVars == <<variant, pc, page, browser, html, scraped, result, raised, error, doc>>
vars == <<now, market_date, date_pc, called_at, previous_call, variant, pc, page, browser, html, scraped, result,
          raised, error, doc>>

(***************************************************************************)
(* Bounds of the clock.                                                    *)
(***************************************************************************)
\* first day of the clock's window, in days since 1970-01-01 (19776 = Friday 23 February 2024)
FirstDay == 19776
\* number of days the clock runs through (the window holds a leap day, a month end and two weekends)
NumDays == 10

MinutesPerDay == 24 * 60
LastSecond == MinutesPerDay * 60 - 1

\* dt_time(14, 40), as a second of the day
cutoff_time == 14 * 3600 + 40 * 60

\* The instants of a day the clock shows: every full minute, the seconds on
\* both sides of the cutoff, and the last second of the day.
TimesOfDay ==
    {m * 60 : m \in 0..(MinutesPerDay - 1)}
        \cup {cutoff_time - 1, cutoff_time + 1, LastSecond}

Days == FirstDay..(FirstDay + NumDays - 1)

NoDate == <<>>

(***************************************************************************)
(* datetime: weekday(), strftime("%d %B %Y").upper()                       *)
(***************************************************************************)
\* datetime.weekday(): 0 = Monday .. 6 = Sunday; 1970-01-01 was a Thursday
weekday(day) == (day + 3) % 7

MonthNames ==
    <<"JANUARY", "FEBRUARY", "MARCH", "APRIL", "MAY", "JUNE", "JULY",
      "AUGUST", "SEPTEMBER", "OCTOBER", "NOVEMBER", "DECEMBER">>

\* the proleptic Gregorian (year, month, day) of a day number
civil(day) ==
    LET z    == day + 719468
        era  == z \div 146097
        doe  == z - era * 146097
        yoe  == (doe - doe \div 1460 + doe \div 36524 - doe \div 146096) \div 365
        doy  == doe - (365 * yoe + yoe \div 4 - yoe \div 100)
        mp   == (5 * doy + 2) \div 153
        d    == doy - (153 * mp + 2) \div 5 + 1
        m    == IF mp < 10 THEN mp + 3 ELSE mp - 9
        y    == yoe + era * 400 + (IF m <= 2 THEN 1 ELSE 0)
    IN  [year |-> y, month |-> m, day |-> d]

\* report_date.strftime("%d %B %Y").upper(): the zero-padded day of the month
\* as two digits, the upper-cased month name, the year
strftime_upper(day) ==
    LET c == civil(day)
    IN  <<c.day \div 10, c.day % 10, MonthNames[c.month], c.year>>

(***************************************************************************)
(* Text.  A text is a sequence of one-character strings, so that replace,  *)
(* strip, the substring test and float() are computed as Python computes   *)
(* them.                                                                   *)
(***************************************************************************)
DigitChars == <<"0", "1", "2", "3", "4", "5", "6", "7", "8", "9">>

IsDigit(c) == \E i \in 1..10 : DigitChars[i] = c

DigitValue(c) == (CHOOSE i \in 1..10 : DigitChars[i] = c) - 1

\* str(n) of a natural number
RECURSIVE Digits(_)
Digits(n) ==
    IF n < 10 THEN <<DigitChars[n + 1]>>
    ELSE Digits(n \div 10) \o <<DigitChars[(n % 10) + 1]>>

\* the number a sequence of digits denotes
RECURSIVE DigitsValue(_)
DigitsValue(s) ==
    IF s = <<>> THEN 0
    ELSE DigitsValue(SubSeq(s, 1, Len(s) - 1)) * 10 + DigitValue(s[Len(s)])

\* s.replace(old, new): every non-overlapping occurrence, left to right
RECURSIVE Replace(_, _, _)
Replace(s, old, new) ==
    IF Len(s) < Len(old) THEN s
    ELSE IF SubSeq(s, 1, Len(old)) = old
         THEN new \o Replace(SubSeq(s, Len(old) + 1, Len(s)), old, new)
         ELSE <<Head(s)>> \o Replace(Tail(s), old, new)

\* s.strip()
RECURSIVE Strip(_)
Strip(s) ==
    IF s = <<>> THEN s
    ELSE IF Head(s) = " " THEN Strip(Tail(s))
    ELSE IF s[Len(s)] = " " THEN Strip(SubSeq(s, 1, Len(s) - 1))
    ELSE s

\* sub in s
Contains(s, sub) ==
    \E i \in 1..(Len(s) - Len(sub) + 1) : SubSeq(s, i, i + Len(sub) - 1) = sub

\* re.sub(r"[^0-9\.\-]", "", s)
KeepNumeric(s) == SelectSeq(s, LAMBDA c : IsDigit(c) \/ c = "." \/ c = "-")

\* Numbers are kept in hundredths.  NaN is float("nan"): a value that no text
\* of the model denotes, and that is never compared by size.
NaN == 0 - 1000000000

AllDigits(s) == \A i \in 1..Len(s) : IsDigit(s[i])

\* the place of the first "." of a text, Len + 1 if it has none
DotPosition(s) ==
    IF \E i \in 1..Len(s) : s[i] = "."
    THEN CHOOSE i \in 1..Len(s) : s[i] = "." /\ \A k \in 1..(i - 1) : s[k] # "."
    ELSE Len(s) + 1

\* float() of the digits before and after the dot: [ok, val], val in
\* hundredths (the texts of the model hold at most two decimals); ok is FALSE
\* where float() raises ValueError
FloatValue(whole, frac, negative) ==
    IF AllDigits(whole) /\ AllDigits(frac) /\ Len(whole) + Len(frac) > 0
    THEN [ok  |-> TRUE,
          val |-> (IF negative THEN 0 - 1 ELSE 1)
                      * (DigitsValue(whole) * 100
                            + DigitsValue(SubSeq(frac \o <<"0", "0">>, 1, 2)))]
    ELSE [ok |-> FALSE, val |-> NaN]

FloatSplit(body, dot, negative) ==
    FloatValue(SubSeq(body, 1, dot - 1), SubSeq(body, dot + 1, Len(body)), negative)

FloatStripped(t) ==
    IF t # <<>> /\ Head(t) \in {"+", "-"}
    THEN FloatSplit(Tail(t), DotPosition(Tail(t)), Head(t) = "-")
    ELSE FloatSplit(t, DotPosition(t), FALSE)

\* float(s) for a text of digits, signs, dots and blanks
Float(s) == FloatStripped(Strip(s))

\* the text of a number of hundredths with two decimals and the suffix a
\* source page prints: "-6.25%", "1,250.50"
Fixed2(h) ==
    LET a == IF h < 0 THEN 0 - h ELSE h
    IN  (IF h < 0 THEN <<"-">> ELSE <<>>)
            \o Digits(a \div 100) \o <<".">> \o Digits((a % 100) \div 10) \o Digits(a % 10)

\* str(x) of a float: the shortest decimal text, with at least one decimal
PyFloatStr(h) ==
    IF h = NaN THEN <<"n", "a", "n">>
    ELSE LET a == IF h < 0 THEN 0 - h ELSE h
         IN  (IF h < 0 THEN <<"-">> ELSE <<>>)
                 \o Digits(a \div 100) \o <<".">>
                 \o (IF a % 10 = 0 THEN Digits((a % 100) \div 10)
                     ELSE Digits((a % 100) \div 10) \o Digits(a % 10))

\* f"{x:.2f}"
Format2f(h) == IF h = NaN THEN <<"n", "a", "n">> ELSE Fixed2(h)

(***************************************************************************)
(* Number cleaning of the three variants.                                  *)
(***************************************************************************)
\* `try: return float(val)  except: return 0.0`
FloatOrZero(f) == IF f.ok THEN f.val ELSE 0

\* line 20: value.replace(",", "").replace("N", "").replace("--", "0").strip()
ParseNumberClean(value) ==
    Strip(Replace(Replace(Replace(value, <<",">>, <<>>), <<"N">>, <<>>),
                  <<"-", "-">>, <<"0">>))

\* scraper.py parse_number: a value float() rejects becomes 0.0
parse_number(value, is_percent) ==
    IF is_percent
    THEN FloatOrZero(Float(Replace(ParseNumberClean(value), <<"%">>, <<>>)))
    ELSE FloatOrZero(Float(ParseNumberClean(value)))

CleanNumberRejects == {<<>>, <<"-">>, <<".">>, <<"-", ".">>}

\* float(x), which raises ValueError on a text such as "--"
FloatOrRaise(f) == [raised |-> ~f.ok, val |-> f.val]

\* line 25: float(x) if x not in ("", "-", ".", "-.") else float("nan")
CleanNumberValue(x) ==
    IF x \in CleanNumberRejects THEN [raised |-> FALSE, val |-> NaN]
    ELSE FloatOrRaise(Float(x))

\* ngx_report.py _clean_number: [raised, val]; val is NaN for a text with no
\* number in it.  (The naira-sign replacement removes characters that the
\* re.sub after it removes as well.)
_clean_number(x) ==
    CleanNumberValue(KeepNumeric(Replace(Replace(Strip(x), <<"N">>, <<>>), <<",">>, <<>>)))

\* pd.to_numeric(errors='coerce') of one cell
CoerceFloat(f) == IF f.ok THEN f.val ELSE NaN

\* app.py lines 107-108 without the trailing .strip(): the three str.replace
\* calls and pd.to_numeric(errors='coerce')
to_numeric_coerce(x) ==
    CoerceFloat(Float(Replace(Replace(Replace(x, <<"%">>, <<>>), <<",">>, <<>>),
                              <<"+">>, <<>>)))

(***************************************************************************)
(* pandas: sort_values, head, dropna on a frame kept as a sequence of rows *)
(* [idx, sym, close, change, pct]; idx is the row's index label.           *)
(***************************************************************************)
Min(a, b) == IF a <= b THEN a ELSE b

\* Rows of equal key: sort_values sorts with kind='quicksort', which fixes no
\* order among them.  The model admits the source order and its reverse.
TieOrders == {"source", "reversed"}

\* whether the row at position p comes before the row at position q
SortsBefore(df, p, q, ascending, ties) ==
    LET a == df[p].pct
        b == df[q].pct
    IN  IF a = NaN \/ b = NaN
        THEN (a # NaN /\ b = NaN) \/ (a = NaN /\ b = NaN /\ p < q)
        ELSE IF a # b THEN (IF ascending THEN a < b ELSE a > b)
        ELSE IF ties = "source" THEN p < q ELSE p > q

\* df.sort_values("% Change", ascending=...): NaN rows last, index labels kept
sort_values(df, ascending, ties) ==
    [r \in 1..Len(df) |->
        df[CHOOSE p \in 1..Len(df) :
               Cardinality({q \in 1..Len(df) : SortsBefore(df, q, p, ascending, ties)})
                   = r - 1]]

\* df.head(n)
head(df, n) == SubSeq(df, 1, Min(n, Len(df)))

\* df.dropna(subset=['% Change'])
dropna(df) == SelectSeq(df, LAMBDA row : row.pct # NaN)

(***************************************************************************)
(* scraper.py: get_top_movers                                              *)
(***************************************************************************)
\* a mutant: the decliners sorted like the gainers
get_top_movers_same_order(df, tg, td) ==
    [adv |-> head(sort_values(df, FALSE, tg), 5),
     dec |-> head(sort_values(df, FALSE, td), 5)]

get_top_movers(df, tg, td) ==
    [adv |-> head(sort_values(df, FALSE, tg), 5),
     dec |-> head(sort_values(df, TRUE, td), 5)]

(***************************************************************************)
(* app.py: get_market_date                                                 *)
(***************************************************************************)
\* the mutants of get_market_date used by the claims' checks
get_market_date_le(t) ==
    LET wd == weekday(t.day)
        report_date ==
            IF wd = 5 THEN t.day - 1
            ELSE IF wd = 6 THEN t.day - 2
            ELSE IF t.tod <= cutoff_time THEN t.day - (IF wd = 0 THEN 3 ELSE 1)
            ELSE t.day
    IN  strftime_upper(report_date)

get_market_date_sunday1(t) ==
    LET wd == weekday(t.day)
        report_date ==
            IF wd = 5 THEN t.day - 1
            ELSE IF wd = 6 THEN t.day - 1
            ELSE IF t.tod < cutoff_time THEN t.day - (IF wd = 0 THEN 3 ELSE 1)
            ELSE t.day
    IN  strftime_upper(report_date)

get_market_date_monday1(t) ==
    LET wd == weekday(t.day)
        report_date ==
            IF wd = 5 THEN t.day - 1
            ELSE IF wd = 6 THEN t.day - 2
            ELSE IF t.tod < cutoff_time THEN t.day - 1
            ELSE t.day
    IN  strftime_upper(report_date)

get_market_date_back3(t) ==
    LET wd == weekday(t.day)
        report_date ==
            IF wd = 5 THEN t.day - 1
            ELSE IF wd = 6 THEN t.day - 2
            ELSE IF t.tod < cutoff_time THEN t.day - 3
            ELSE t.day
    IN  strftime_upper(report_date)

get_market_date(t) ==
    LET wd == weekday(t.day)
        report_date ==
            IF wd = 5 THEN t.day - 1
            ELSE IF wd = 6 THEN t.day - 2
            ELSE IF t.tod < cutoff_time THEN t.day - (IF wd = 0 THEN 3 ELSE 1)
            ELSE t.day
    IN  strftime_upper(report_date)

(***************************************************************************)
(* The clock and the calls.                                                *)
(***************************************************************************)
\* the least element of a non-empty set of numbers
Least(S) == CHOOSE s \in S : \A u \in S : s <= u

\* the instant the clock shows after t: the next of TimesOfDay, or midnight
NextInstant(t) ==
    IF t.tod = LastSecond
    THEN [day |-> t.day + 1, tod |-> 0]
    ELSE [day |-> t.day,
          tod |-> Least({s \in {(t.tod \div 60 + 1) * 60,
                                cutoff_time - 1, cutoff_time + 1, LastSecond} :
                            s > t.tod /\ s \in TimesOfDay})]

\* Python's None, kept as a record so that it compares with records
None == [none |-> TRUE]

\* no pipeline runs
FetchIdle ==
    /\ variant = "none"
    /\ pc = "idle"
    /\ page = None
    /\ browser = "none"
    /\ html = None
    /\ scraped = <<>>
    /\ result = None
    /\ raised = "none"
    /\ error = <<>>
    /\ doc = None

\* an instant before every instant of the clock: the mark of a call whose
\* minute is over
LongAgo == [day |-> 0, tod |-> 0]

NoCall == [date |-> NoDate, at |-> LongAgo]

\* two instants of the same minute of the same day
SameMinute(s, t) == s.day = t.day /\ s.tod \div 60 = t.tod \div 60

\* the instant of a call, as it is remembered when the clock shows t
Remembered(at, t) == IF SameMinute(at, t) THEN at ELSE LongAgo

InitDate ==
    /\ now = [day |-> FirstDay, tod |-> 0]
    /\ market_date = NoDate
    /\ date_pc = "idle"
    /\ called_at = LongAgo
    /\ previous_call = NoCall
    /\ FetchIdle

\* time passes
Tick ==
    /\ NextInstant(now).day \in Days
    /\ now' = NextInstant(now)
    /\ date_pc' = "idle"
    /\ called_at' = Remembered(called_at, NextInstant(now))
    /\ previous_call' =
           [previous_call EXCEPT !.at = Remembered(previous_call.at, NextInstant(now))]
    /\ UNCHANGED <<market_date, fetchVars>>

\* market_date = get_market_date() (app.py line 159)
GetMarketDate ==
    /\ market_date' = get_market_date(now)
    /\ date_pc' = "returned"
    /\ called_at' = now
    /\ previous_call' =
           IF market_date = NoDate THEN NoCall
           ELSE [date |-> market_date, at |-> called_at]
    /\ UNCHANGED <<now, fetchVars>>

NextDate == Tick \/ GetMarketDate

SpecDate == InitDate /\ [][NextDate]_vars

(***************************************************************************)
(* The pages the exchange's site serves.                                   *)
(***************************************************************************)
\* most table rows of a page
MaxRows == 11

\* A table's percent-change column is drawn from a family: row i (from 0)
\* shows ((Stride * i + Shift) % MaxRows) \div Group, centred on zero, in
\* steps of 1.25 %.  Stride 1 runs upward, MaxRows - 1 downward, 3 mixes the
\* order; Group 1 keeps the values distinct, a larger Group makes rows tie.
Strides == {1, 3, MaxRows - 1}
Shifts == {0, 4}
Groups == {1, 2, MaxRows}

\* the cell of a row without a percent change
NotAvailable == <<"N", "/", "A">>

CurrentText == <<"N", "1", ",", "2", "5", "0", ".", "5", "0">>
ChangeText == <<"0", ".", "1", "0">>

PctText(i, stride, shift, group) ==
    Fixed2(((((stride * i) + shift) % MaxRows) \div group - MaxRows \div 2) * 125)
        \o <<" ", "%">>

\* n rows of cell texts; row `na` (from 1; 0 for none) shows "N/A"
PageRows(n, stride, shift, group, na) ==
    [j \in 1..n |->
        [sym     |-> <<"S">> \o Digits(j),
         current |-> CurrentText,
         change  |-> ChangeText,
         pct     |-> IF j = na THEN NotAvailable
                     ELSE PctText(j - 1, stride, shift, group)]]

\* A page is kept as the parameters of its table: n rows, the family's
\* stride, shift and group, and the row that shows "N/A".
TableParams ==
    [n : 0..MaxRows, stride : Strides, shift : Shifts, group : Groups, na : {0, 1, 6}]

\* the rows of the page's table
Rows(pg) == PageRows(pg.n, pg.stride, pg.shift, pg.group, pg.na)

(***************************************************************************)
(* scraper.py: scrape_equities_table, generate_word, add_table             *)
(***************************************************************************)
\* lines 45-55: the rows with at least 4 cells, parsed; the frame's index is
\* the position in `data`
ScrapedFrame(rows) ==
    [j \in 1..Len(rows) |->
        [idx    |-> j - 1,
         sym    |-> Strip(rows[j].sym),
         close  |-> parse_number(rows[j].current, FALSE),
         change |-> parse_number(rows[j].change, FALSE),
         pct    |-> parse_number(rows[j].pct, TRUE)]]

ScraperColumns ==
    << <<"S", "y", "m", "b", "o", "l", "s">>,
       <<"C", "u", "r", "r", "e", "n", "t">>,
       <<"C", "h", "a", "n", "g", "e">>,
       <<"%", " ", "C", "h", "a", "n", "g", "e">> >>

Blank == <<>>

\* the cells add_table writes for a frame row: str(val) of each value
ScraperCells(row) ==
    <<row.sym, PyFloatStr(row.close), PyFloatStr(row.change), PyFloatStr(row.pct)>>

\* add_table(doc, df): a table of df.shape[0] + 1 rows; the header; then
\* `for i, row in df.iterrows()` writes row i + 1, i being the index label.
\* table.cell raises IndexError for a row the table does not have.
add_table(frame) ==
    LET n == Len(frame)
        out_of_range == \E k \in 1..n : frame[k].idx + 1 > n
    IN  IF out_of_range
        THEN [raised |-> TRUE, table |-> <<>>]
        ELSE [raised |-> FALSE,
              table  |->
                  [r \in 1..(n + 1) |->
                      IF r = 1 THEN ScraperColumns
                      ELSE IF \E k \in 1..n : frame[k].idx + 1 = r - 1
                           THEN ScraperCells(frame[CHOOSE k \in 1..n : frame[k].idx + 1 = r - 1])
                           ELSE <<Blank, Blank, Blank, Blank>>]]

\* pages of the scraper: the data rows, and `short` rows of fewer than 4 cells
ScraperPages ==
    {[n |-> t.n, stride |-> t.stride, shift |-> t.shift, group |-> t.group,
      na |-> t.na, short |-> k] : t \in TableParams, k \in {0, 11}}

\* line 34: webdriver.Chrome(options=options)
S_StartDriver ==
    /\ variant = "scraper" /\ pc = "start"
    /\ \E started \in BOOLEAN :
          IF started
          THEN /\ browser' = "running"
               /\ pc' = "get"
               /\ UNCHANGED raised
          ELSE /\ raised' = "WebDriverException"
               /\ pc' = "done"
               /\ UNCHANGED browser
    /\ UNCHANGED <<dateVars, variant, page, html, scraped, result, error, doc>>

\* line 35: driver.get(NGX_URL), before the try
S_Get ==
    /\ variant = "scraper" /\ pc = "get"
    /\ \E loaded \in BOOLEAN :
          IF loaded
          THEN /\ pc' = "scrape"
               /\ UNCHANGED raised
          ELSE /\ raised' = "WebDriverException"
               /\ pc' = "done"
    /\ UNCHANGED <<dateVars, variant, page, browser, html, scraped, result, error, doc>>

\* lines 37-59: the wait for more than 10 rows, the parse, and the finally
S_Scrape ==
    /\ variant = "scraper" /\ pc = "scrape"
    /\ \E in_time \in BOOLEAN :
          IF in_time /\ page.n + page.short > 10
          THEN /\ scraped' = ScrapedFrame(Rows(page))
               /\ pc' = "scraped"
               /\ UNCHANGED raised
          ELSE /\ raised' = "TimeoutException"
               /\ pc' = "done"
               /\ UNCHANGED scraped
    /\ browser' = "quit"
    /\ UNCHANGED <<dateVars, variant, page, html, result, error, doc>>

\* get_top_movers(df)
S_TopMovers ==
    /\ variant = "scraper" /\ pc = "scraped"
    /\ \E tg \in TieOrders, td \in TieOrders :
          result' = get_top_movers(scraped, tg, td)
    /\ pc' = "selected"
    /\ UNCHANGED <<dateVars, variant, page, browser, html, scraped, raised, error, doc>>

\* lines 82-86: the two tables are added and the document saved, unless
\* add_table raised
S_Save(g, d) ==
    IF g.raised \/ d.raised
    THEN /\ raised' = "IndexError"
         /\ UNCHANGED doc
    ELSE /\ doc' = [adv |-> g.table, dec |-> d.table]
         /\ UNCHANGED raised

\* generate_word(gainers, decliners)
S_Word ==
    /\ variant = "scraper" /\ pc = "selected"
    /\ S_Save(add_table(result.adv), add_table(result.dec))
    /\ pc' = "done"
    /\ UNCHANGED <<dateVars, variant, page, browser, html, scraped, result, error>>

(***************************************************************************)
(* app.py: get_driver, fetch_ngx_data, create_word and the button handler  *)
(***************************************************************************)
T_PctChange == <<"%", " ", "C", "h", "a", "n", "g", "e">>
T_Symbol == <<"S", "y", "m", "b", "o", "l">>
T_Current == <<"C", "u", "r", "r", "e", "n", "t">>
T_Change == <<"C", "h", "a", "n", "g", "e">>
T_Ticker == <<"T", "i", "c", "k", "e", "r">>
T_ClosePrice == <<"C", "l", "o", "s", "e", " ", "P", "r", "i", "c", "e">>
T_NairaChange == <<"N", "a", "i", "r", "a", " ", "C", "h", "a", "n", "g", "e">>

\* the header a page gives its percent-change column: the expected one, one
\* padded with blanks, one that is another word
PctHeaders == {T_PctChange, <<" ">> \o T_PctChange \o <<" ">>, <<"%", "C", "h", "g">>}

AppPages ==
    {[n |-> t.n, stride |-> t.stride, shift |-> t.shift, group |-> t.group,
      na |-> t.na, tables |-> b, pct_header |-> h] :
        t \in TableParams, b \in BOOLEAN, h \in PctHeaders}

\* the columns pd.read_html gives the page's table
AppColumns(pg) == <<T_Symbol, T_Current, T_Change, pg.pct_header>>

\* lines 95-102: the stripped and renamed column names
RenamedColumn(c) ==
    LET c1 == Strip(c)
    IN  IF c1 = T_Symbol THEN T_Ticker
        ELSE IF c1 = T_Current THEN T_ClosePrice
        ELSE IF c1 = T_Change THEN T_NairaChange
        ELSE c1

\* the frame lines 104-108 would leave if line 107 did not raise
AppFrame(rows) ==
    [j \in 1..Len(rows) |->
        [idx    |-> j - 1,
         sym    |-> rows[j].sym,
         close  |-> to_numeric_coerce(rows[j].current),
         change |-> to_numeric_coerce(rows[j].change),
         pct    |-> to_numeric_coerce(rows[j].pct)]]

\* line 107: `.str.replace('+', '').strip()` asks a Series for an attribute
\* it does not have, which raises AttributeError
SeriesStripRaises == TRUE

\* lines 110-115: dropna, the two sorts, head(5)
SelectTop5(frame, tg, td) ==
    [adv |-> head(sort_values(frame, FALSE, tg), 5),
     dec |-> head(sort_values(frame, TRUE, td), 5)]

\* lines 95-115 for a table whose stripped and renamed columns are `cols`
ParseNgxTable(pg, cols, tg, td) ==
    IF {T_PctChange, T_ClosePrice, T_NairaChange} \cap cols # {} /\ SeriesStripRaises
    THEN [error |-> "Market Access Error: AttributeError", result |-> None]
    ELSE IF T_PctChange \notin cols
    THEN [error |-> "Market Access Error: KeyError", result |-> None]
    ELSE [error |-> "none", result |-> SelectTop5(dropna(AppFrame(Rows(pg))), tg, td)]

\* lines 81-115 on the loaded page: [error, result]
ParseNgxPage(pg, tg, td) ==
    IF \E k \in 1..4 : Contains(AppColumns(pg)[k], T_PctChange)
    THEN ParseNgxTable(pg, {RenamedColumn(AppColumns(pg)[k]) : k \in 1..4}, tg, td)
    ELSE [error |-> "Table structure not found", result |-> None]

WordHeader == <<T_Ticker, T_PctChange, T_ClosePrice, T_NairaChange>>

\* create_word: per list, a header row and one added row per quote
create_word_table(frame) ==
    <<WordHeader>> \o
        [k \in 1..Len(frame) |->
            <<frame[k].sym, Format2f(frame[k].pct) \o <<"%">>,
              Format2f(frame[k].close), Format2f(frame[k].change)>>]

\* lines 67-69 with get_driver: the browser does not start, or starts and
\* rejects the CDP command (get_driver raises, fetch_ngx_data's `driver` is
\* still None), or starts and is configured
A_GetDriver ==
    /\ variant = "app" /\ pc = "start"
    /\ \E outcome \in {"ok", "no_browser", "cdp_fails"} :
          /\ browser' = IF outcome = "no_browser" THEN "none" ELSE "running"
          /\ pc' = IF outcome = "ok" THEN "load" ELSE "fetched"
          /\ error' = IF outcome = "ok" THEN error
                      ELSE Append(error, "Market Access Error: WebDriverException")
    /\ UNCHANGED <<dateVars, variant, page, html, scraped, result, raised, doc>>

\* lines 71-80: driver.get, the wait for a table cell, page_source
A_Load ==
    /\ variant = "app" /\ pc = "load"
    /\ \E outcome \in {"ok", "get_fails", "wait_timeout"} :
          IF outcome = "ok" /\ page.tables /\ page.n > 0
          THEN /\ pc' = "parse"
               /\ html' = [kind |-> "page_source"]
               /\ UNCHANGED <<error, browser>>
          ELSE /\ pc' = "fetched"
               /\ error' = Append(error,
                               IF outcome = "get_fails"
                               THEN "Market Access Error: WebDriverException"
                               ELSE "Market Access Error: TimeoutException")
               /\ browser' = "quit"
               /\ UNCHANGED html
    /\ UNCHANGED <<dateVars, variant, page, scraped, result, raised, doc>>

\* what fetch_ngx_data returns and shows
A_Return(r) ==
    /\ result' = r.result
    /\ error' = IF r.error = "none" THEN error ELSE Append(error, r.error)

\* lines 81-122: the parse, the selection, the return and the finally
A_Parse ==
    /\ variant = "app" /\ pc = "parse"
    /\ \E tg \in TieOrders, td \in TieOrders : A_Return(ParseNgxPage(page, tg, td))
    /\ browser' = "quit"
    /\ pc' = "fetched"
    /\ UNCHANGED <<dateVars, variant, page, html, scraped, raised, doc>>

\* lines 165-182: the button handler after fetch_ngx_data returned
A_Report ==
    /\ variant = "app" /\ pc = "fetched"
    /\ IF result # None /\ Len(result.adv) > 0
       THEN /\ doc' = [adv |-> create_word_table(result.adv),
                       dec |-> create_word_table(result.dec)]
            /\ UNCHANGED error
       ELSE /\ error' = Append(error, "The NGX website is currently blocking the connection")
            /\ UNCHANGED doc
    /\ pc' = "done"
    /\ UNCHANGED <<dateVars, variant, page, browser, html, scraped, result, raised>>

NextApp == A_GetDriver \/ A_Load \/ A_Parse \/ A_Report

(***************************************************************************)
(* ngx_report.py: fetch_top5_tables, build_word, generate_files_for_today, *)
(* run from run_scheduled.py                                               *)
(***************************************************************************)
\* What a html holds.  "snapshot": both headings, each followed by its
\* table; "no_decliners": the advancers heading and table only; "no_tables":
\* the headings and no table; "no_current": both tables, without a Current
\* column; "static": none of the snapshot blocks.
SiteKinds == {"snapshot", "no_decliners", "no_tables", "no_current"}

\* most rows of a "Top 5" table of the site
MaxTopRows == 6

\* http: what requests.get meets ("timeout", a "static" page, or the site's
\* "snapshot" html); site: what the browser shows; the advancers table is
\* the page's table, the decliners table the same family run the other way
ReportPages ==
    {[n |-> t.n, stride |-> t.stride, shift |-> t.shift, group |-> t.group,
      na |-> t.na, http |-> h, site |-> k] :
        t \in {u \in TableParams : u.n <= MaxTopRows},
        h \in {"timeout", "static", "snapshot"}, k \in SiteKinds}

\* the rows of the page's decliners table
DecRows(pg) == PageRows(pg.n, MaxRows - pg.stride, pg.shift, pg.group, pg.na)

HasAdvancersHeading(h) == h # None /\ h.kind # "static"
HasDeclinersHeading(h) == h.kind \in {"snapshot", "no_tables", "no_current"}
HasTables(h) == h.kind \in {"snapshot", "no_decliners", "no_current"}

\* one row of normalize's `out`, from its cleaned cells
CleanedRow(j, sym, close, pct, change) ==
    [raised |-> close.raised \/ pct.raised \/ change.raised,
     row    |-> [idx |-> j - 1, sym |-> sym, close |-> close.val,
                 change |-> change.val, pct |-> pct.val]]

\* lines 103-108: the columns of `out`, cleaned whole
CleanedRows(rows) ==
    [j \in 1..Len(rows) |->
        CleanedRow(j, Strip(rows[j].sym),
                   _clean_number(rows[j].current),
                   _clean_number(Replace(rows[j].pct, <<"%">>, <<>>)),
                   _clean_number(rows[j].change))]

\* lines 97-110: the column lookups, `out`, and out.head(5)
NormalizeOut(kind, cleaned) ==
    IF kind = "no_current"
    THEN [raised |-> "IndexError", frame |-> <<>>]
    ELSE IF \E j \in 1..Len(cleaned) : cleaned[j].raised
    THEN [raised |-> "ValueError", frame |-> <<>>]
    ELSE [raised |-> "none",
          frame  |-> head([j \in 1..Len(cleaned) |-> cleaned[j].row], 5)]

\* normalize(df): [raised, frame]
normalize(kind, rows) == NormalizeOut(kind, CleanedRows(rows))

\* line 112: return normalize(adv_raw), normalize(dec_raw)
ReturnTop5(a, d) ==
    IF a.raised # "none" THEN [raised |-> a.raised, result |-> None]
    ELSE IF d.raised # "none" THEN [raised |-> d.raised, result |-> None]
    ELSE [raised |-> "none", result |-> [adv |-> a.frame, dec |-> d.frame]]

\* lines 65-112 on the html in hand: [raised, result]
ParseTop5(h, pg) ==
    IF ~HasTables(h) THEN [raised |-> "ValueError", result |-> None]
    ELSE IF ~HasAdvancersHeading(h) \/ ~HasDeclinersHeading(h)
    THEN [raised |-> "ValueError", result |-> None]
    ELSE ReturnTop5(normalize(h.kind, Rows(pg)), normalize(h.kind, DecRows(pg)))

ReportHeader(label) == <<label, T_ClosePrice, T_PctChange, T_NairaChange>>

\* build_word's add_table(label, df): a header row, one added row per quote
build_word_table(label, frame) ==
    <<ReportHeader(label)>> \o
        [k \in 1..Len(frame) |->
            <<frame[k].sym, Format2f(frame[k].close), Format2f(frame[k].pct),
              Format2f(frame[k].change)>>]

\* lines 33-48, Method A: requests.get in its try / except, and the test that
\* sends the run to the browser
R_Request ==
    /\ variant = "report" /\ pc = "start"
    /\ html' = IF page.http = "timeout" THEN None
               ELSE [kind |-> IF page.http = "static" THEN "static" ELSE page.site]
    /\ pc' = IF HasAdvancersHeading(html') THEN "parse" ELSE "browser"
    /\ UNCHANGED <<dateVars, variant, page, browser, scraped, result, raised, error, doc>>

\* lines 49-63, Method B: the browser is launched, driven and closed; an
\* exception leaves through playwright's context manager
R_Browser ==
    /\ variant = "report" /\ pc = "browser"
    /\ \E outcome \in {"ok", "launch_fails", "goto_fails", "click_fails"} :
          CASE outcome = "ok" ->
                 /\ html' = [kind |-> page.site]
                 /\ browser' = "quit"
                 /\ pc' = "parse"
                 /\ UNCHANGED raised
            [] outcome = "launch_fails" ->
                 /\ raised' = "Error"
                 /\ pc' = "done"
                 /\ UNCHANGED <<html, browser>>
            [] OTHER ->
                 /\ raised' = "TimeoutError"
                 /\ browser' = "stopped"
                 /\ pc' = "done"
                 /\ UNCHANGED html
    /\ UNCHANGED <<dateVars, variant, page, scraped, result, error, doc>>

\* fetch_top5_tables returns the pair or raises
R_Return(r) ==
    /\ result' = r.result
    /\ raised' = r.raised
    /\ pc' = IF r.raised = "none" THEN "fetched" ELSE "done"

\* lines 65-112: the tables are found and normalized
R_Parse ==
    /\ variant = "report" /\ pc = "parse"
    /\ R_Return(ParseTop5(html, page))
    /\ UNCHANGED <<dateVars, variant, page, browser, html, scraped, error, doc>>

\* generate_files_for_today after the fetch: build_word
R_Build ==
    /\ variant = "report" /\ pc = "fetched"
    /\ doc' = [adv |-> build_word_table(<<"G", "a", "i", "n", "e", "r", "s">>, result.adv),
               dec |-> build_word_table(<<"L", "o", "s", "e", "r", "s">>, result.dec)]
    /\ pc' = "done"
    /\ UNCHANGED <<dateVars, variant, page, browser, html, scraped, result, raised, error>>

NextReport == R_Request \/ R_Browser \/ R_Parse \/ R_Build

(***************************************************************************)
(* The three pipelines.                                                    *)
(***************************************************************************)
DateIdle ==
    /\ now = [day |-> FirstDay, tod |-> 0]
    /\ market_date = NoDate
    /\ date_pc = "idle"
    /\ called_at = LongAgo
    /\ previous_call = NoCall

InitFetch ==
    /\ DateIdle
    /\ variant \in {"scraper", "app", "report"}
    /\ pc = "start"
    /\ page \in CASE variant = "scraper" -> ScraperPages
                  [] variant = "app" -> AppPages
                  [] OTHER -> ReportPages
    /\ browser = "none"
    /\ html = None
    /\ scraped = <<>>
    /\ result = None
    /\ raised = "none"
    /\ error = <<>>
    /\ doc = None

NextScraper == S_StartDriver \/ S_Get \/ S_Scrape \/ S_TopMovers \/ S_Word

NextFetch == NextScraper \/ NextApp \/ NextReport

SpecFetch == InitFetch /\ [][NextFetch]_vars

(***************************************************************************)
(* Claims about get_market_date.                                           *)
(***************************************************************************)
\* the latest day before `day` that is a Monday-to-Friday day
PreviousTradingDay(day) ==
    CHOOSE d \in (day - 7)..(day - 1) :
        /\ weekday(d) < 5
        /\ \A e \in (d + 1)..(day - 1) : weekday(e) >= 5

\* the latest Friday on or before `day`
LatestFriday(day) ==
    CHOOSE d \in (day - 6)..day : weekday(d) = 4

\* C1: on a Monday-to-Friday day a call labels the report with the previous
\* trading day exactly when the time of day is before 14:40:00, and with
\* today's date from 14:40:00 onward.
C1_WeekdayCutoff ==
    (date_pc = "returned" /\ weekday(now.day) < 5) =>
        /\ now.tod < cutoff_time =>
               /\ market_date = strftime_upper(PreviousTradingDay(now.day))
               /\ market_date # strftime_upper(now.day)
        /\ now.tod >= cutoff_time =>
               market_date = strftime_upper(now.day)

\* a Monday call at 14:39 returned the Friday three days earlier
C1_Witness ==
    /\ date_pc = "returned"
    /\ weekday(now.day) = 0
    /\ now.tod = cutoff_time - 60
    /\ market_date = strftime_upper(now.day - 3)

\* C2: at every time of a Saturday and of a Sunday a call labels the report
\* with the immediately preceding Friday.
C2_WeekendFriday ==
    (date_pc = "returned" /\ weekday(now.day) >= 5) =>
        /\ market_date = strftime_upper(LatestFriday(now.day))
        /\ market_date =
               strftime_upper(now.day - (IF weekday(now.day) = 5 THEN 1 ELSE 2))

\* a Sunday call after the cutoff returned the Friday two days earlier
C2_Witness ==
    /\ date_pc = "returned"
    /\ weekday(now.day) = 6
    /\ now.tod > cutoff_time
    /\ market_date = strftime_upper(now.day - 2)

\* C10: the date a call returns is a Monday-to-Friday date, not later than
\* the current date and at most 3 days earlier.
C10_LabelIsRecentWeekday ==
    date_pc = "returned" =>
        \E d \in (now.day - 3)..now.day :
            /\ weekday(d) < 5
            /\ market_date = strftime_upper(d)

\* a Monday call before the cutoff returned a date 3 days back
C10_Witness ==
    /\ date_pc = "returned"
    /\ weekday(now.day) = 0
    /\ now.tod < cutoff_time
    /\ market_date = strftime_upper(now.day - 3)
    /\ market_date # strftime_upper(now.day - 2)

\* the month number of an upper-cased month name
MonthNumber(name) == CHOOSE m \in 1..12 : MonthNames[m] = name

\* the calendar order of the labels: year, then month, then day of the month
LabelKey(label) ==
    label[4] * 10000 + MonthNumber(label[3]) * 100 + label[1] * 10 + label[2]

\* C11: of two calls, the later one never returns an earlier date than the
\* earlier one, and two calls made in the same minute of the clock return the
\* same label.
C11_LabelNeverMovesBack ==
    previous_call # NoCall =>
        /\ LabelKey(previous_call.date) <= LabelKey(market_date)
        /\ previous_call.at # LongAgo => market_date = previous_call.date

\* a call on a Monday at 14:40:00 returned Monday after the call before it,
\* made in an earlier minute, had returned the Friday before the weekend
C11_Witness ==
    /\ date_pc = "returned"
    /\ weekday(now.day) = 0
    /\ now.tod = cutoff_time
    /\ market_date = strftime_upper(now.day)
    /\ previous_call = [date |-> strftime_upper(now.day - 3), at |-> LongAgo]
    /\ LabelKey(previous_call.date) < LabelKey(market_date)

(***************************************************************************)
(* Claims about the fetch, the selection and the rendering.                *)
(***************************************************************************)
\* the fetch has returned or raised
FetchOver ==
    \/ variant = "scraper" /\ pc \in {"scraped", "selected", "done"}
    \/ variant \in {"app", "report"} /\ pc \in {"fetched", "done"}

\* the rows the advancers list and the decliners list were taken from
SourceAdv ==
    CASE variant = "scraper" -> scraped
      [] variant = "app" -> AppFrame(Rows(page))
      [] OTHER -> [j \in 1..page.n |-> CleanedRows(Rows(page))[j].row]

SourceDec ==
    CASE variant = "scraper" -> scraped
      [] variant = "app" -> AppFrame(Rows(page))
      [] OTHER -> [j \in 1..page.n |-> CleanedRows(DecRows(page))[j].row]

PctsDistinct(frame) ==
    \A p, q \in 1..Len(frame) : p # q => frame[p].pct # frame[q].pct

NoNaN(frame) == \A p \in 1..Len(frame) : frame[p].pct # NaN

Descending(frame) ==
    \A k \in 1..(Len(frame) - 1) : frame[k].pct > frame[k + 1].pct

Ascending(frame) ==
    \A k \in 1..(Len(frame) - 1) : frame[k].pct < frame[k + 1].pct

\* C3: for rows of distinct percent_change, the advancers returned are sorted
\* descending, the decliners ascending, each of length min(5, row_count), in
\* every variant that returns the two lists.
C3_SortedTop5 ==
    (/\ result # None
     /\ NoNaN(SourceAdv) /\ NoNaN(SourceDec)
     /\ PctsDistinct(SourceAdv) /\ PctsDistinct(SourceDec)) =>
        /\ Descending(result.adv)
        /\ Ascending(result.dec)
        /\ Len(result.adv) = Min(5, Len(SourceAdv))
        /\ Len(result.dec) = Min(5, Len(SourceDec))

\* the index label of the page's "N/A" row
NaIndex == page.na - 1

HoldsIndex(frame, i) == \E k \in 1..Len(frame) : frame[k].idx = i

\* C4: a row whose percent-change cell is "N/A" is in neither list.
C4_NotAvailableDropped ==
    (result # None /\ page.na \in 1..page.n) =>
        /\ ~HoldsIndex(result.adv, NaIndex)
        /\ ~HoldsIndex(result.dec, NaIndex)

\* C5: a fetch whose source gave a valid table returns the two lists and
\* shows no error: fetch_ngx_data on a loaded page whose table has a
\* '% Change' column, fetch_top5_tables on a html with both tables.
C5_ValidTableReturned ==
    /\ (/\ variant = "app" /\ pc \in {"fetched", "done"}
        /\ html # None
        /\ Strip(page.pct_header) = T_PctChange
        /\ page.na = 0) =>
           /\ result # None
           /\ error = <<>>
    /\ (/\ variant = "report" /\ pc \in {"fetched", "done"}
        /\ html # None /\ html.kind = "snapshot"
        /\ page.na = 0) =>
           /\ result # None
           /\ raised = "none"

\* C6: no exception of an attempt of fetch_top5_tables reaches its caller.
C6_NoExceptionPropagates ==
    variant = "report" => raised = "none"

\* C7: when the fetch has returned or raised, the browser it started is
\* terminated.
C7_BrowserTerminated ==
    FetchOver => browser # "running"

SharedRows(r) ==
    {i \in 0..MaxRows : HoldsIndex(r.adv, i) /\ HoldsIndex(r.dec, i)}

\* C8 as stated: with 10 or more eligible rows no row is in both lists, ties
\* or not.
C8_DisjointFromTenRows ==
    (/\ variant \in {"scraper", "app"}
     /\ result # None
     /\ Len(SourceAdv) >= 10) =>
        SharedRows(result) = {}

\* C8 as amended: with 10 or more rows of pairwise distinct percent_change no
\* row is in both lists.
C8_DisjointWhenDistinct ==
    (/\ variant \in {"scraper", "app"}
     /\ result # None
     /\ Len(SourceAdv) >= 10
     /\ PctsDistinct(SourceAdv)) =>
        SharedRows(result) = {}

\* get_top_movers returned two disjoint lists of five from ten or more rows
\* of distinct percent_change
C8_Witness ==
    /\ variant = "scraper"
    /\ result # None
    /\ Len(scraped) >= 10
    /\ PctsDistinct(scraped)
    /\ Len(result.adv) = 5
    /\ Len(result.dec) = 5
    /\ SharedRows(result) = {}

\* a table of one header row and then one row per quote, in list order
RendersInOrder(table, frame) ==
    /\ Len(table) = Len(frame) + 1
    /\ \A k \in 1..Len(frame) : table[k + 1][1] = frame[k].sym

\* C9: rendering the two lists raises nothing and gives each table one
\* header row and one row per quote, in list order.
C9_RendersEveryQuote ==
    (pc = "done" /\ result # None /\ variant \in {"scraper", "report"}) =>
        /\ raised = "none"
        /\ doc # None
        /\ RendersInOrder(doc.adv, result.adv)
        /\ RendersInOrder(doc.dec, result.dec)


====
